---- MODULE Spec2Model ----
(***************************************************************************)
(* The two-stage streaming pipeline of article_rag:                        *)
(*   MongoChangeStreamProducer -> raw_document_changes -> EmbeddingProcessor*)
(*   -> embedded_documents -> QdrantUpserter -> Qdrant collection.         *)
(* Redis streams, the embedding service and Qdrant are the environment;    *)
(* their calls succeed or raise nondeterministically.  Strings are         *)
(* sequences of one-character strings, so that join, strip and slicing are *)
(* computed as Python computes them.                                       *)
(***************************************************************************)
EXTENDS Integers, Sequences, FiniteSets, TLC

\* ------------------------------------------------------------------ bounds
MaxEvents == 2      \* change notifications the feed delivers in one behaviour
MaxFailures == 1    \* failing calls (Redis, embedding service, Qdrant) and killed
                    \* worker processes in one behaviour, together
NodeEntries == 2    \* entries in one node of a stream (stream-node-max-entries)
Capacity == 2       \* maxlen of the log of LogAppend
MaxAppends == 6     \* appends to that log in one behaviour

DocIds == {"A", "B"}
Embedders == {"e1", "e2"}     \* replicas of embedding_processor.py
Upserters == {"u1", "u2"}     \* replicas of qdrant_consumer.py

\* ------------------------------------------------------- program constants
MAXLEN == 10000               \* xadd(..., maxlen=10000)
embedder_count == 5           \* xreadgroup(count=5)
upserter_count == 10          \* xreadgroup(count=10)
pending_count == 100          \* xpending_range(count=100)
min_idle_time == 60000        \* xclaim(min_idle_time=60000)
max_retries == 3              \* retry loops of both consumers and of the producer
expected_size == 384          \* vector size the upserter accepts
preview_len == 500            \* content_preview slice

None == <<"None">>             \* Python's None (dict.get of a missing key)

\* ------------------------------------------------------------------- state
VARIABLES
  collection,    \* MongoDB: which documents the watched collection holds
  clock,         \* the producer's clock: notifications received so far
  feed,          \* start_monitoring: "closed", "open" or "terminated"
  retry_count,   \* start_monitoring's retry_count
  stage1,        \* the stream raw_document_changes
  stage2,        \* the stream embedded_documents
  group1,        \* consumer group embedding_processors on stage1
  group2,        \* consumer group qdrant_upserters on stage2
  embedder,      \* per EmbeddingProcessor replica: where it is in its code
  upserter,      \* per QdrantUpserter replica: where it is in its code
  qdrant,        \* the points of the Qdrant collection 'documents'
  applied,       \* history: the ids of the Stage-2 entries whose mutation returned
                 \* success, in the order of the mutations
  attempts,      \* history: the calls of the embedding service or of Qdrant that
                 \* the latest run of _process_* made, and the sleeps between them
  faults,        \* failing calls so far
  crashes,       \* killed workers so far
  consumer_name  \* per replica: self.consumer_name, set by its constructor

vars == <<collection, clock, feed, retry_count, stage1, stage2, group1, group2,
          embedder, upserter, qdrant, applied, attempts, faults, crashes,
          consumer_name>>

producerVars == <<collection, clock, feed, retry_count>>

\* ----------------------------------------------------------------- helpers
Get(d, k, default) == IF k \in DOMAIN d THEN d[k] ELSE default

Min(a, b) == IF a <= b THEN a ELSE b

Take(s, n) == SubSeq(s, 1, Min(n, Len(s)))

RECURSIVE SortedSeq(_)
SortedSeq(S) ==
  IF S = {} THEN <<>>
  ELSE LET m == CHOOSE x \in S : \A y \in S : x <= y
       IN <<m>> \o SortedSeq(S \ {m})

RECURSIVE lstrip(_)
lstrip(s) == IF s # <<>> /\ Head(s) = " " THEN lstrip(Tail(s)) ELSE s

RECURSIVE rstrip(_)
rstrip(s) ==
  IF s # <<>> /\ s[Len(s)] = " " THEN rstrip(SubSeq(s, 1, Len(s) - 1)) ELSE s

strip(s) == rstrip(lstrip(s))

RECURSIVE join(_, _)
join(sep, parts) ==
  IF parts = <<>> THEN <<>>
  ELSE IF Len(parts) = 1 THEN parts[1]
  ELSE parts[1] \o sep \o join(sep, Tail(parts))

\* ---------------------------------------------------------- Redis streams
\* A stream is a sequence of entries [id, data]; ids are assigned in
\* increasing order by the broker.
NextId(stream) == IF stream = <<>> THEN 1 ELSE stream[Len(stream)].id + 1

Ids(stream) == {stream[i].id : i \in 1..Len(stream)}

Entry(stream, id) == (CHOOSE i \in 1..Len(stream) : stream[i].id = id)

Data(stream, id) == stream[Entry(stream, id)].data

\* xadd(..., maxlen=n) sends XADD MAXLEN ~ n (approximate=True is the default
\* of redis-py's xadd): the broker evicts the oldest entries by whole nodes
\* of the stream only, never going below n entries.  The numbers of entries
\* it may evict from a stream of len entries: none as long as len <= n, and
\* otherwise any that leaves at least n entries and fewer than n plus one
\* node.
Evictions(len, maxlen) ==
  {k \in 0..len : len - k >= Min(len, maxlen) /\ len - k < maxlen + NodeEntries}

\* XADD: append, then evict the oldest entries.
XAdd(stream, data, maxlen, evicted) ==
  LET s == Append(stream, [id |-> NextId(stream), data |-> data])
  IN SubSeq(s, evicted + 1, Len(s))

\* XGROUP CREATE ... id='0' mkstream: the group as the broker has it after
\* the call.
XGroupCreate(group) ==
  IF group.created THEN group
  ELSE [created |-> TRUE, last_delivered |-> 0, pel |-> {}]

\* A setup that answers BUSYGROUP by destroying the group and creating it
\* again.
_setup_consumer_group_reset(group, error) ==
  IF error THEN [group |-> group, raised |-> TRUE]
  ELSE [group |-> [created |-> TRUE, last_delivered |-> 0, pel |-> {}], raised |-> FALSE]

\* _setup_consumer_group: XGROUP CREATE answers OK, or BUSYGROUP when the
\* group exists, or (error) with another error.  BUSYGROUP is swallowed, any
\* other error leaves the method.
_setup_consumer_group(group, error) ==
  LET response == IF error THEN "ERR" ELSE IF group.created THEN "BUSYGROUP" ELSE "OK"
  IN IF response = "OK" THEN [group |-> XGroupCreate(group), raised |-> FALSE]
     ELSE IF response = "BUSYGROUP" THEN [group |-> group, raised |-> FALSE]
     ELSE [group |-> group, raised |-> TRUE]

\* XREADGROUP '0' count: every id of the stream, delivered before or not.
XReadGroupIdsAll(stream, group, count) == Take(SortedSeq(Ids(stream)), count)

\* XREADGROUP '>' count: the ids never delivered to the group, oldest first.
XReadGroupIds(stream, group, count) ==
  Take(SortedSeq({i \in Ids(stream) : i > group.last_delivered}), count)

XReadGroup(group, ids) ==
  [group EXCEPT !.last_delivered = ids[Len(ids)],
                !.pel = @ \cup {ids[i] : i \in 1..Len(ids)}]

\* XPENDING range - + count: the pending ids of the group, oldest first.
XPendingRange(group, count) == Take(SortedSeq(group.pel), count)

\* XCLAIM min_idle_time: the entry is claimed when it is pending and has been
\* idle for at least min_idle.
XClaimed(group, id, idle, min_idle) == id \in group.pel /\ idle >= min_idle

\* XACK: the entry leaves the pending entries list.
XAck(group, id) == [group EXCEPT !.pel = @ \ {id}]

\* The ids delivered to the group and no longer pending: the acknowledged.
Acked(group) == {i \in 1..group.last_delivered : i \notin group.pel}


\* ------------------------------------------------------------- the source
\* Documents as MongoDB holds them.  The first has text, the second has an
\* empty subject and a body of one blank: no text to embed.
FullDocuments ==
  { [product |-> <<"p">>, customer |-> <<"c">>, owner |-> <<"o">>, date |-> <<"d">>,
     subject |-> <<"S">>, body |-> <<"C">>],
    [product |-> <<"p">>, customer |-> <<"c">>, owner |-> <<"o">>, date |-> <<"d">>,
     subject |-> <<>>, body |-> <<" ">>] }

OperationTypes == {"insert", "update", "replace", "delete"}

\* The notifications the change feed can deliver next, given which documents
\* the collection holds: an insert creates a document, the others concern an
\* existing one.  A delete carries the document key only.  The document of
\* the first notification is called "A".
ChangeEvents(exists, n) ==
  { [operationType |-> "delete", documentKey |-> [_id |-> d]] : d \in {x \in DocIds : exists[x]} }
  \cup
  { [operationType |-> op[1], documentKey |-> [_id |-> op[2]],
     fullDocument |-> [_id |-> op[2]] @@ doc] :
       op \in {o \in {"insert", "update", "replace"} \X DocIds :
                 /\ (o[1] = "insert") = ~exists[o[2]]
                 /\ n = 0 => o[2] = "A"},
       doc \in FullDocuments }

\* ---------------------------------------------------- mongo_producer.py
\* now: datetime.now().isoformat(), here the number of the notification.
_prepare_raw_message(change_event, now) ==
  LET operation == change_event.operationType
  IN IF operation = "delete"
     THEN [operation |-> "delete",
           doc_id |-> change_event.documentKey._id,
           timestamp |-> now,
           stage |-> "raw"]
     ELSE LET document == Get(change_event, "fullDocument", <<>>)
          IN [operation |-> operation,
              doc_id |-> document._id,
              product |-> Get(document, "product", <<>>),
              customer |-> Get(document, "customer", <<>>),
              owner |-> Get(document, "owner", <<>>),
              date |-> Get(document, "date", <<>>),
              subject |-> Get(document, "subject", <<>>),
              content |-> Get(document, "body", <<>>),
              timestamp |-> now,
              stage |-> "raw"]

\* document['_id'] raises when the notification carries no full document (an
\* update whose document was gone at the lookup).
_prepare_raw_message_raises(change_event) ==
  /\ change_event.operationType # "delete"
  /\ "_id" \notin DOMAIN Get(change_event, "fullDocument", <<>>)

\* The notifications of an update without its full document.
MalformedEvents(exists) ==
  { [operationType |-> "update", documentKey |-> [_id |-> d]] : d \in {x \in DocIds : exists[x]} }

\* ------------------------------------------------ embedding_processor.py
\* The embedding service: an opaque text -> vector function.  A vector is
\* represented by its length and the text it embeds.
Encode(text, size) == [len |-> size, of |-> text]

\* The service answers with a vector of the collection's size, or (another
\* model behind the same URL) with one of another size.
VectorSizes == {expected_size, expected_size - 1}

\* wait_time = 2 ** attempt
wait_time(attempt) == 2 ^ attempt

\* What a retry loop did: the calls it made, how many of them failed, and the
\* sleeps between them.
Calls(r) ==
  [made |-> r.calls, failed |-> r.failed, slept |-> r.slept]

NoCalls == [made |-> 0, failed |-> 0, slept |-> <<>>]

\* A loop of one attempt more than max_retries.
RECURSIVE _get_embedding_loop_more(_, _, _, _)
_get_embedding_loop_more(text, size, failures, attempt) ==
  IF failures > attempt
  THEN IF attempt = max_retries
       THEN [calls |-> attempt + 1, failed |-> attempt + 1, raised |-> TRUE,
             vector |-> None, slept |-> <<>>]
       ELSE LET r == _get_embedding_loop_more(text, size, failures, attempt + 1)
            IN [r EXCEPT !.slept = <<wait_time(attempt)>> \o @]
  ELSE [calls |-> attempt + 1, failed |-> attempt, raised |-> FALSE,
        vector |-> Encode(text, size), slept |-> <<>>]

\* _get_embedding: up to max_retries attempts; failures is the number of
\* consecutive failing responses the service gives from now on.  The last
\* failing attempt raises; the others sleep wait_time and go on.  The result
\* counts the calls made and those that failed.
RECURSIVE _get_embedding_loop(_, _, _, _)
_get_embedding_loop(text, size, failures, attempt) ==
  IF failures > attempt
  THEN IF attempt = max_retries - 1
       THEN [calls |-> attempt + 1, failed |-> attempt + 1, raised |-> TRUE,
             vector |-> None, slept |-> <<>>]
       ELSE LET r == _get_embedding_loop(text, size, failures, attempt + 1)
            IN [r EXCEPT !.slept = <<wait_time(attempt)>> \o @]
  ELSE [calls |-> attempt + 1, failed |-> attempt, raised |-> FALSE,
        vector |-> Encode(text, size), slept |-> <<>>]

_get_embedding(text, size, failures) == _get_embedding_loop(text, size, failures, 0)

\* json.dumps / json.loads of the vector, as the stream field carries it.
json_dumps(vector) == <<"json", vector>>

json_loads(s) ==
  IF Len(s) = 2 /\ s[1] = "json" THEN [raised |-> FALSE, value |-> s[2]]
  ELSE [raised |-> TRUE, value |-> None]

\* The subject alone.
text_to_embed_subject(message_data) == Get(message_data, "subject", <<>>)

text_to_embed(message_data) ==
  LET text_parts == SelectSeq(<<Get(message_data, "subject", <<>>),
                               Get(message_data, "content", <<>>)>>,
                             LAMBDA f : f # <<>>)
  IN join(<<" ">>, text_parts)

\* No test at all: every text is embedded.
no_text_never(text) == FALSE

\* A stricter test than the one of the code: texts of fewer than ten
\* characters count as no text.
no_text_short(text) == Len(strip(text)) < 10

\* if not text_to_embed.strip()
no_text(text) == strip(text) = <<>>

\* What the environment does to one run of _process_raw_message: the size
\* of the vector the service returns, how many of its responses fail, and
\* whether the XADD and the XACK of this run succeed.
\* One call at most fails in one run: a second failure is never reached.
EmbedderEnvs ==
  {e \in [size : VectorSizes, failures : 0..max_retries, xadd_ok : BOOLEAN, xack_ok : BOOLEAN] :
     (IF e.size # expected_size THEN 1 ELSE 0) + (IF e.failures > 0 THEN 1 ELSE 0)
       + (IF e.xadd_ok THEN 0 ELSE 1) + (IF e.xack_ok THEN 0 ELSE 1) <= 1}

\* The run in which every call succeeds.
GoodEmbedderEnv == [size |-> expected_size, failures |-> 0, xadd_ok |-> TRUE, xack_ok |-> TRUE]

\* A tombstone that carries the embedding of the empty text.
tombstone_embedded(message_data, now) ==
  [operation |-> "delete",
   doc_id |-> message_data.doc_id,
   vector |-> json_dumps(Encode(<<>>, expected_size)),
   vector_size |-> expected_size,
   timestamp |-> now,
   stage |-> "embedded",
   original_timestamp |-> message_data.timestamp]

\* The message _process_raw_message passes on for a delete.
tombstone(message_data, now) ==
  [operation |-> "delete",
   doc_id |-> message_data.doc_id,
   timestamp |-> now,
   stage |-> "embedded",
   original_timestamp |-> message_data.timestamp]

\* _process_raw_message up to and including the XADD.  The result names the
\* message appended to Stage 2 (xadd), and how the run goes on: "xack" (the
\* XACK that follows the XADD is next), "skipped" (no text: acknowledged and
\* returned), "raise" (an exception leaves the method), and what the retry
\* loop of _get_embedding did (embedding).
_process_raw_message(message_data, now, env) ==
  LET operation == message_data.operation
      doc_id == message_data.doc_id
      forward(embedded_message) ==
        IF env.xadd_ok THEN [xadd |-> <<embedded_message>>, next |-> "xack"]
        ELSE [xadd |-> <<>>, next |-> "raise"]
      result(r, calls) == [xadd |-> r.xadd, next |-> r.next, embedding |-> calls]
  IN IF operation = "delete"
     THEN result(forward(tombstone(message_data, now)), NoCalls)
     ELSE IF operation \in {"insert", "update"}
     THEN IF no_text(text_to_embed(message_data))
          THEN result([xadd |-> <<>>, next |-> IF env.xack_ok THEN "skipped" ELSE "raise"],
                    NoCalls)
          ELSE LET e == _get_embedding(text_to_embed(message_data), env.size, env.failures)
                   content == Get(message_data, "content", <<>>)
               IN IF e.raised THEN result([xadd |-> <<>>, next |-> "raise"], Calls(e))
                  ELSE result(forward(
                               [operation |-> operation,
                                doc_id |-> doc_id,
                                product |-> Get(message_data, "product", <<>>),
                                customer |-> Get(message_data, "customer", <<>>),
                                owner |-> Get(message_data, "owner", <<>>),
                                date |-> Get(message_data, "date", <<>>),
                                subject |-> Get(message_data, "subject", <<>>),
                                content_full |-> content,
                                content_preview |->
                                  IF Len(content) > preview_len
                                  THEN Take(content, preview_len) ELSE content,
                                vector |-> json_dumps(e.vector),
                                vector_size |-> e.vector.len,
                                timestamp |-> now,
                                stage |-> "embedded",
                                original_timestamp |-> message_data.timestamp]), Calls(e))
     \* any other operation: embedded_message is unbound at the XADD
     ELSE result([xadd |-> <<>>, next |-> "raise"], NoCalls)

\* ---------------------------------------------------- qdrant_consumer.py
\* A point id that is not a function of the document id: a fresh identifier
\* at every call (uuid4), here numbered by the mutations applied so far.
_mongodb_id_to_uuid_fresh(mongodb_id) == <<"uuid4", mongodb_id, Len(applied)>>

\* A point id that depends on the time of the call (uuid1), the time being the
\* producer's clock.
_mongodb_id_to_uuid_timed(mongodb_id) == <<"uuid1", mongodb_id, clock>>

\* uuid.uuid5(namespace, str(mongodb_id)): a hash of the pair, taken to be
\* free of collisions.
_mongodb_id_to_uuid(mongodb_id) ==
  <<"6ba7b810-9dad-11d1-80b4-00c04fd430c8", mongodb_id>>

\* Qdrant: upsert replaces the point of the same id, delete removes it.
QdrantUpsert(points, point) == {p \in points : p.id # point.id} \cup {point}

\* A delete that removes nothing.
QdrantDeleteNothing(points, point_id) == points

QdrantDelete(points, point_id) == {p \in points : p.id # point_id}

\* What the code does not do: a message without a usable vector going on to
\* the XACK.
poison_next_xack == "xack"

\* A message without a usable vector: logger.error(...) and return.
poison_next == "return"

\* What the environment does to one run of _process_embedded_message: how
\* many of Qdrant's responses fail.
UpserterEnvs == [failures : 0..max_retries]

\* A loop that swallows the exception of the last attempt.
RECURSIVE qdrant_retry_loop_swallow(_, _)
qdrant_retry_loop_swallow(failures, attempt) ==
  IF failures > attempt
  THEN IF attempt = max_retries - 1
       THEN [calls |-> attempt + 1, failed |-> attempt + 1, raised |-> FALSE, slept |-> <<>>]
       ELSE LET r == qdrant_retry_loop_swallow(failures, attempt + 1)
            IN [r EXCEPT !.slept = <<wait_time(attempt)>> \o @]
  ELSE [calls |-> attempt + 1, failed |-> attempt, raised |-> FALSE, slept |-> <<>>]

\* The retry loop around qdrant_client.delete and qdrant_client.upsert: up to
\* max_retries attempts; failures is the number of consecutive failing
\* responses Qdrant gives from now on.  The last failing attempt raises; the
\* others sleep wait_time and go on.
RECURSIVE qdrant_retry_loop(_, _)
qdrant_retry_loop(failures, attempt) ==
  IF failures > attempt
  THEN IF attempt = max_retries - 1
       THEN [calls |-> attempt + 1, failed |-> attempt + 1, raised |-> TRUE, slept |-> <<>>]
       ELSE LET r == qdrant_retry_loop(failures, attempt + 1)
            IN [r EXCEPT !.slept = <<wait_time(attempt)>> \o @]
  ELSE [calls |-> attempt + 1, failed |-> attempt, raised |-> FALSE, slept |-> <<>>]

\* _process_embedded_message up to the XACK.  The result names the mutation
\* that Qdrant applied (none, a delete or an upsert), how the run goes on:
\* "xack", "return" (returned without XACK) or "raise", and what the retry
\* loop did (store).
_process_embedded_message(message_data, env) ==
  LET operation == message_data.operation
      doc_id == message_data.doc_id
      retry(mutation) ==
        LET q == qdrant_retry_loop(env.failures, 0)
        IN IF q.raised THEN [mutation |-> <<>>, next |-> "raise", store |-> Calls(q)]
           ELSE [mutation |-> <<mutation>>, next |-> "xack", store |-> Calls(q)]
  IN IF operation = "delete"
     THEN retry([kind |-> "delete", id |-> _mongodb_id_to_uuid(doc_id)])
     ELSE IF operation \in {"insert", "update"}
     THEN LET vector_json == Get(message_data, "vector", None)
          IN IF vector_json = None \/ vector_json = <<>>
             THEN [mutation |-> <<>>, next |-> poison_next, store |-> NoCalls]
             ELSE IF json_loads(vector_json).raised
             THEN [mutation |-> <<>>, next |-> poison_next, store |-> NoCalls]
             ELSE IF json_loads(vector_json).value.len # expected_size
             THEN [mutation |-> <<>>, next |-> poison_next, store |-> NoCalls]
             ELSE retry([kind |-> "upsert",
                         point |->
                           [id |-> _mongodb_id_to_uuid(doc_id),
                            vector |-> json_loads(vector_json).value,
                            payload |->
                              [mongodb_id |-> doc_id,
                               product |-> Get(message_data, "product", <<>>),
                               customer |-> Get(message_data, "customer", <<>>),
                               owner |-> Get(message_data, "owner", <<>>),
                               date |-> Get(message_data, "date", <<>>),
                               subject |-> Get(message_data, "subject", <<>>),
                               content |-> Get(message_data, "content", <<>>),
                               vector_size |-> Get(message_data, "vector_size", None),
                               embedded_timestamp |-> Get(message_data, "timestamp", None),
                               original_timestamp |->
                                 Get(message_data, "original_timestamp", None)]]])
     ELSE [mutation |-> <<>>, next |-> "xack", store |-> NoCalls]

\* A collection that takes upserts and ignores deletes.
MutateUpsertsOnly(points, mutation) ==
  IF mutation = <<>> \/ mutation[1].kind = "delete" THEN points
  ELSE QdrantUpsert(points, mutation[1].point)

Mutate(points, mutation) ==
  IF mutation = <<>> THEN points
  ELSE IF mutation[1].kind = "delete" THEN QdrantDelete(points, mutation[1].id)
  ELSE QdrantUpsert(points, mutation[1].point)

\* self.consumer_name = f'embedder_{int(time.time())}', the clock being read
\* in milliseconds.
embedder_name(now) == <<"embedder_", now \div 1000>>

\* self.consumer_name = f'upserter_{int(time.time())}'
upserter_name(now) == <<"upserter_", now \div 1000>>

\* The readings of the clock at which a replica is constructed again after
\* the start of the pipeline, where the first replica of each stage was
\* constructed at 1000 and the second at 2000: in the second in which the
\* second replica was.
StartTimes == {2000, 2999}

\* ------------------------------------------------------------ initial state
\* A worker: mode "down" (no process), "sweep" (handle_pending_messages) or
\* "main" (the read loop); todo: the entries still to go through (the pending
\* list of the sweep, the batch of the read); cur and phase: the entry being
\* processed, "proc" (claimed, _process_* not yet run) or "ack" (at the XACK
\* that follows the downstream effect); "next" between entries.
Down == [mode |-> "down", todo |-> <<>>, cur |-> 0, phase |-> "next"]

NoGroup == [created |-> FALSE, last_delivered |-> 0, pel |-> {}]

\* ----------------------------------------------------------- both consumers
\* The worker after one entry is done without an exception, or after an
\* exception in the read loop (which goes on with the next entry).
AfterItem(mode, rest) ==
  [mode |-> IF mode = "sweep" /\ rest = <<>> THEN "main" ELSE mode,
   todo |-> rest, cur |-> 0, phase |-> "next"]

\* A sweep that goes on with the next listed entry after an exception.
AfterRaiseContinuing(mode, rest) ==
  [mode |-> IF mode = "sweep" /\ rest = <<>> THEN "main" ELSE mode,
   todo |-> rest, cur |-> 0, phase |-> "next"]

\* The worker after an exception: handle_pending_messages gives up the rest
\* of its list and the read loop starts; the read loop goes on.
AfterRaise(mode, rest) ==
  IF mode = "sweep" THEN [mode |-> "main", todo |-> <<>>, cur |-> 0, phase |-> "next"]
  ELSE AfterItem(mode, rest)

\* The constructor and the listing of handle_pending_messages.
Started(group, ok) ==
  LET pending == IF ok THEN XPendingRange(XGroupCreate(group), pending_count) ELSE <<>>
  IN [mode |-> IF pending = <<>> THEN "main" ELSE "sweep",
      todo |-> pending, cur |-> 0, phase |-> "next"]

\* One XCLAIM of handle_pending_messages on the head of its list.
Claimed(self, group, idle, ok) ==
  IF ~ok THEN AfterRaise(self.mode, Tail(self.todo))
  ELSE IF XClaimed(group, Head(self.todo), idle, min_idle_time)
  THEN [self EXCEPT !.todo = Tail(@), !.cur = Head(self.todo), !.phase = "proc"]
  ELSE AfterItem(self.mode, Tail(self.todo))

IdleTimes == {min_idle_time - 1, min_idle_time}

\* The entry _process_* runs on next, and what is left to do after it.
Ready(self) ==
  \/ self.mode = "main" /\ self.phase = "next" /\ self.todo # <<>>
  \/ self.mode = "sweep" /\ self.phase = "proc"

Current(self) == IF self.mode = "main" THEN Head(self.todo) ELSE self.cur

Rest(self) == IF self.mode = "main" THEN Tail(self.todo) ELSE self.todo

\* A worker that swallows the exception leaving the first part of _process_*
\* and reaches the XACK all the same.
ProcessedSwallowed(self, next) ==
  IF next \in {"xack", "raise"}
  THEN [self EXCEPT !.todo = Rest(self), !.cur = Current(self), !.phase = "ack"]
  ELSE AfterItem(self.mode, Rest(self))

\* The worker after the first part of _process_*.
Processed(self, next) ==
  IF next = "xack" THEN [self EXCEPT !.todo = Rest(self), !.cur = Current(self), !.phase = "ack"]
  ELSE IF next = "raise" THEN AfterRaise(self.mode, Rest(self))
  ELSE AfterItem(self.mode, Rest(self))

\* Stage-2 insert messages as the upserter guards against them: without
\* the vector field, with an empty one, with one that is no JSON, and one
\* as the embedder writes it.
EmbeddedMessages ==
  LET good == _process_raw_message(
                _prepare_raw_message(
                  [operationType |-> "insert", documentKey |-> [_id |-> "A"],
                   fullDocument |-> [_id |-> "A", subject |-> <<"S">>, body |-> <<"C">>]], 1),
                1, GoodEmbedderEnv).xadd[1]
      bare == [f \in DOMAIN good \ {"vector"} |-> good[f]]
  IN {good, bare, [good EXCEPT !.vector = <<>>], [good EXCEPT !.vector = <<"[0.1, ">>]}

\* The streams of two such messages.
EmbeddedStreams ==
  {<<[id |-> 1, data |-> a], [id |-> 2, data |-> b]>> : a, b \in EmbeddedMessages}

\* The pipeline after the constructors of its processes, on a collection
\* holding the documents of the set docs and a Stage-2 stream holding the
\* entries embedded.
Start(docs, embedded) ==
  /\ collection = [d \in DocIds |-> d \in docs]
  /\ clock = 0
  /\ feed = "closed"
  /\ retry_count = 0
  /\ stage1 = <<>>
  /\ stage2 = embedded
  /\ group1 = XGroupCreate(NoGroup)
  /\ group2 = XGroupCreate(NoGroup)
  /\ embedder = [w \in Embedders |-> Started(group1, TRUE)]
  /\ upserter = [w \in Upserters |-> Started(group2, TRUE)]
  /\ qdrant = {}
  /\ applied = <<>>
  /\ attempts = [stage |-> 0] @@ NoCalls
  /\ faults = 0
  /\ crashes = 0
  /\ consumer_name = [e1 |-> embedder_name(1000), e2 |-> embedder_name(2000),
                      u1 |-> upserter_name(1000), u2 |-> upserter_name(2000)]

\* The pipeline started on an empty collection.
Init == Start({}, <<>>)

\* The pipeline started on a collection that holds the document "A": the
\* first notifications can be updates, replacements and deletes.
InitExisting == Start({"A"}, <<>>)

\* The upserters started on a Stage-2 stream that holds two messages, written
\* by whatever producer.
InitUpserter == \E embedded \in EmbeddedStreams : Start({"A"}, embedded)

\* n more failures fit in the behaviour.
Budget(n) == faults + crashes + n <= MaxFailures

\* ---------------------------------------------------------------- producer
ApplyChange(exists, change_event) ==
  [exists EXCEPT ![change_event.documentKey._id] = change_event.operationType # "delete"]

\* sleep_time = min(60, 2 ** retry_count)
sleep_time(count) == Min(60, 2 ^ count)

\* An opening that leaves retry_count as it is.
OpenFeedKeeping ==
  /\ feed = "closed"
  /\ feed' = "open"
  /\ UNCHANGED <<collection, clock, retry_count, stage1, stage2, group1, group2, embedder,
                 upserter, qdrant, applied, attempts, faults, crashes,
                 consumer_name>>

\* collection.watch() opens: retry_count is reset.
OpenFeed ==
  /\ feed = "closed"
  /\ feed' = "open"
  /\ retry_count' = 0
  /\ UNCHANGED <<collection, clock, stage1, stage2, group1, group2, embedder,
                 upserter, qdrant, applied, attempts, faults, crashes,
                 consumer_name>>

\* The outer handler of start_monitoring, terminating one failure later.
FeedErrorLenient ==
  /\ feed \in {"closed", "open"}
  /\ retry_count' = retry_count + 1
  /\ feed' = IF retry_count + 1 > max_retries THEN "terminated" ELSE "closed"
  /\ UNCHANGED <<collection, clock, stage1, stage2, group1, group2, embedder,
                 upserter, qdrant, applied, attempts, faults, crashes,
                 consumer_name>>

\* The change stream raises (on opening or while listening): the outer
\* handler counts the failure and either stops or goes back to opening.  The
\* failures of the feed are not taken from the budget of the behaviour: they
\* may go on for ever.
FeedError ==
  /\ feed \in {"closed", "open"}
  /\ retry_count' = retry_count + 1
  /\ feed' = IF retry_count + 1 >= max_retries THEN "terminated" ELSE "closed"
  /\ UNCHANGED <<collection, clock, stage1, stage2, group1, group2, embedder,
                 upserter, qdrant, applied, attempts, faults, crashes,
                 consumer_name>>

\* A loop body without its handler: the exception of the XADD reaches the
\* outer handler, which closes the feed and counts a failure.
NotifyAborting ==
  /\ feed = "open"
  /\ clock < MaxEvents
  /\ \E change \in ChangeEvents(collection, clock), xadd_ok \in BOOLEAN,
        evicted \in Evictions(Len(stage1) + 1, MAXLEN) :
       /\ xadd_ok \/ Budget(1)
       /\ faults' = IF xadd_ok THEN faults ELSE faults + 1
       /\ collection' = ApplyChange(collection, change)
       /\ clock' = clock + 1
       /\ stage1' = IF xadd_ok
                    THEN XAdd(stage1, _prepare_raw_message(change, clock + 1), MAXLEN, evicted)
                    ELSE stage1
       /\ feed' = IF xadd_ok THEN feed ELSE "closed"
       /\ retry_count' = IF xadd_ok THEN retry_count ELSE retry_count + 1
  /\ UNCHANGED <<stage2, group1, group2, embedder, upserter, qdrant, applied, attempts, crashes,
                 consumer_name>>

\* One notification of the feed goes through the loop body: the message is
\* prepared and appended to Stage 1; when the XADD raises, the error is
\* logged and the loop continues with the next notification.
Notify ==
  /\ feed = "open"
  /\ clock < MaxEvents
  /\ \E change \in ChangeEvents(collection, clock), xadd_ok \in BOOLEAN,
        evicted \in Evictions(Len(stage1) + 1, MAXLEN) :
       /\ xadd_ok \/ Budget(1)
       /\ faults' = IF xadd_ok THEN faults ELSE faults + 1
       /\ collection' = ApplyChange(collection, change)
       /\ clock' = clock + 1
       /\ stage1' = IF xadd_ok
                    THEN XAdd(stage1, _prepare_raw_message(change, clock + 1), MAXLEN, evicted)
                    ELSE stage1
  /\ UNCHANGED <<feed, retry_count, stage2, group1, group2, embedder, upserter,
                 qdrant, applied, attempts, crashes,
                 consumer_name>>

\* One notification whose message cannot be built goes through the loop
\* body: _prepare_raw_message raises, the error is logged and the loop
\* continues with the next notification.
NotifyMalformed ==
  /\ feed = "open"
  /\ clock < MaxEvents
  /\ \E change \in MalformedEvents(collection) :
       /\ _prepare_raw_message_raises(change)
       /\ collection' = ApplyChange(collection, change)
  /\ clock' = clock + 1
  /\ UNCHANGED <<feed, retry_count, stage1, stage2, group1, group2, embedder, upserter,
                 qdrant, applied, attempts, faults, crashes,
                 consumer_name>>

Bit(b) == IF b THEN 1 ELSE 0

\* ------------------------------------------------------ EmbeddingProcessor
\* The failing calls an environment of _process_raw_message stands for.
ECost(env) ==
  Bit(env.size # expected_size) + Bit(env.failures > 0) + Bit(~env.xadd_ok) + Bit(~env.xack_ok)

\* An environment is drawn when it is the failure-free one or when its
\* failure changes the outcome of the run.
EDrawn(message_data, now, env) ==
  \/ env = GoodEmbedderEnv
  \/ _process_raw_message(message_data, now, env)
       # _process_raw_message(message_data, now, GoodEmbedderEnv)

\* A replica starts: consumer group set up, pending entries listed.  When
\* the set-up of the group raises, the constructor raises and there is no
\* replica.
EStart(w) ==
  /\ embedder[w].mode = "down"
  /\ \E error \in BOOLEAN, ok \in BOOLEAN, now \in StartTimes :
       LET r == _setup_consumer_group(group1, error)
       IN /\ error => (Budget(1) /\ ok)
          /\ ok \/ (Budget(1) /\ group1.pel # {})
          /\ faults' = faults + Bit(error \/ ~ok)
          /\ group1' = r.group
          /\ embedder' = IF r.raised THEN embedder
                         ELSE [embedder EXCEPT ![w] = Started(group1, ok)]
          /\ consumer_name' = IF r.raised THEN consumer_name
                              ELSE [consumer_name EXCEPT ![w] = embedder_name(now)]
  /\ UNCHANGED <<producerVars, stage1, stage2, group2, upserter, qdrant, applied, attempts, crashes>>

\* handle_pending_messages: XCLAIM of the next listed entry.
ESweepClaim(w) ==
  /\ embedder[w].mode = "sweep"
  /\ embedder[w].phase = "next"
  /\ \E idle \in IdleTimes, ok \in BOOLEAN :
       /\ ok \/ Budget(1)
       /\ faults' = faults + Bit(~ok)
       /\ embedder' = [embedder EXCEPT ![w] = Claimed(embedder[w], group1, idle, ok)]
  /\ UNCHANGED <<producerVars, stage1, stage2, group1, group2, upserter, qdrant,
                 applied, attempts, crashes,
                 consumer_name>>

\* start_processing: XREADGROUP returns a batch of new entries.
ERead(w) ==
  /\ embedder[w].mode = "main"
  /\ embedder[w].phase = "next"
  /\ embedder[w].todo = <<>>
  /\ group1.created
  /\ LET ids == XReadGroupIds(stage1, group1, embedder_count)
     IN /\ ids # <<>>
        /\ group1' = XReadGroup(group1, ids)
        /\ embedder' = [embedder EXCEPT ![w].todo = ids]
  /\ UNCHANGED <<producerVars, stage1, stage2, group2, upserter, qdrant, applied, attempts,
                 faults, crashes,
                 consumer_name>>

\* _process_raw_message on the next entry, up to and including the XADD.
EProcess(w) ==
  /\ Ready(embedder[w])
  /\ LET self == embedder[w]
         id == Current(self)
         message_data == Data(stage1, id)
         now == NextId(stage2)
     IN \E env \in EmbedderEnvs, evicted \in Evictions(Len(stage2) + 1, MAXLEN) :
          LET r == _process_raw_message(message_data, now, env)
          IN /\ EDrawn(message_data, now, env)
             /\ Budget(ECost(env))
             /\ faults' = faults + ECost(env)
             /\ stage2' = IF r.xadd # <<>> THEN XAdd(stage2, r.xadd[1], MAXLEN, evicted)
                          ELSE stage2
             /\ group1' = IF r.next = "skipped" THEN XAck(group1, id) ELSE group1
             /\ embedder' = [embedder EXCEPT ![w] = Processed(self, r.next)]
             /\ attempts' = [stage |-> 1] @@ r.embedding
  /\ UNCHANGED <<producerVars, stage1, group2, upserter, qdrant, applied, crashes,
                 consumer_name>>

\* An embedder that deletes the entry from the Stage-1 stream (XDEL) once
\* it has acknowledged it.
EAckDeleting(w) ==
  /\ embedder[w].phase = "ack"
  /\ LET self == embedder[w]
     IN \E ok \in BOOLEAN :
          /\ ok \/ Budget(1)
          /\ faults' = faults + Bit(~ok)
          /\ group1' = IF ok THEN XAck(group1, self.cur) ELSE group1
          /\ stage1' = SelectSeq(stage1, LAMBDA e : e.id # self.cur)
          /\ embedder' = [embedder EXCEPT ![w] =
                            IF ok THEN AfterItem(self.mode, self.todo)
                            ELSE AfterRaise(self.mode, self.todo)]
  /\ UNCHANGED <<producerVars, stage2, group2, upserter, qdrant, applied, attempts, crashes,
                 consumer_name>>

\* _process_raw_message: the XACK after the XADD.
EAck(w) ==
  /\ embedder[w].phase = "ack"
  /\ LET self == embedder[w]
     IN \E ok \in BOOLEAN :
          /\ ok \/ Budget(1)
          /\ faults' = faults + Bit(~ok)
          /\ group1' = IF ok THEN XAck(group1, self.cur) ELSE group1
          /\ embedder' = [embedder EXCEPT ![w] =
                            IF ok THEN AfterItem(self.mode, self.todo)
                            ELSE AfterRaise(self.mode, self.todo)]
  /\ UNCHANGED <<producerVars, stage1, stage2, group2, upserter, qdrant, applied, attempts, crashes,
                 consumer_name>>

\* The process is killed (or interrupted), wherever it is.
ECrash(w) ==
  /\ embedder[w].mode # "down"
  /\ Budget(1)
  /\ crashes' = crashes + 1
  /\ embedder' = [embedder EXCEPT ![w] = Down]
  /\ UNCHANGED <<producerVars, stage1, stage2, group1, group2, upserter, qdrant,
                 applied, attempts, faults,
                 consumer_name>>

\* ---------------------------------------------------------- QdrantUpserter
UCost(env) == Bit(env.failures > 0)

GoodUpserterEnv == [failures |-> 0]

UDrawn(message_data, env) ==
  \/ env = GoodUpserterEnv
  \/ _process_embedded_message(message_data, env)
       # _process_embedded_message(message_data, GoodUpserterEnv)

UStart(w) ==
  /\ upserter[w].mode = "down"
  /\ \E error \in BOOLEAN, ok \in BOOLEAN, now \in StartTimes :
       LET r == _setup_consumer_group(group2, error)
       IN /\ error => (Budget(1) /\ ok)
          /\ ok \/ (Budget(1) /\ group2.pel # {})
          /\ faults' = faults + Bit(error \/ ~ok)
          /\ group2' = r.group
          /\ upserter' = IF r.raised THEN upserter
                         ELSE [upserter EXCEPT ![w] = Started(group2, ok)]
          /\ consumer_name' = IF r.raised THEN consumer_name
                              ELSE [consumer_name EXCEPT ![w] = upserter_name(now)]
  /\ UNCHANGED <<producerVars, stage1, stage2, group1, embedder, qdrant, applied, attempts, crashes>>

USweepClaim(w) ==
  /\ upserter[w].mode = "sweep"
  /\ upserter[w].phase = "next"
  /\ \E idle \in IdleTimes, ok \in BOOLEAN :
       /\ ok \/ Budget(1)
       /\ faults' = faults + Bit(~ok)
       /\ upserter' = [upserter EXCEPT ![w] = Claimed(upserter[w], group2, idle, ok)]
  /\ UNCHANGED <<producerVars, stage1, stage2, group1, group2, embedder, qdrant,
                 applied, attempts, crashes,
                 consumer_name>>

URead(w) ==
  /\ upserter[w].mode = "main"
  /\ upserter[w].phase = "next"
  /\ upserter[w].todo = <<>>
  /\ group2.created
  /\ LET ids == XReadGroupIds(stage2, group2, upserter_count)
     IN /\ ids # <<>>
        /\ group2' = XReadGroup(group2, ids)
        /\ upserter' = [upserter EXCEPT ![w].todo = ids]
  /\ UNCHANGED <<producerVars, stage1, stage2, group1, embedder, qdrant, applied, attempts,
                 faults, crashes,
                 consumer_name>>

\* _process_embedded_message on the next entry, up to the XACK: the delete or
\* the upsert with its retries.
UProcess(w) ==
  /\ Ready(upserter[w])
  /\ LET self == upserter[w]
         id == Current(self)
         message_data == Data(stage2, id)
     IN \E env \in UpserterEnvs :
          LET r == _process_embedded_message(message_data, env)
          IN /\ UDrawn(message_data, env)
             /\ Budget(UCost(env))
             /\ faults' = faults + UCost(env)
             /\ qdrant' = Mutate(qdrant, r.mutation)
             /\ applied' = IF r.mutation # <<>> THEN Append(applied, id) ELSE applied
             /\ upserter' = [upserter EXCEPT ![w] = Processed(self, r.next)]
             /\ attempts' = [stage |-> 2] @@ r.store
  /\ UNCHANGED <<producerVars, stage1, stage2, group1, group2, embedder, crashes,
                 consumer_name>>

\* _process_embedded_message: the XACK.
UAck(w) ==
  /\ upserter[w].phase = "ack"
  /\ LET self == upserter[w]
     IN \E ok \in BOOLEAN :
          /\ ok \/ Budget(1)
          /\ faults' = faults + Bit(~ok)
          /\ group2' = IF ok THEN XAck(group2, self.cur) ELSE group2
          /\ upserter' = [upserter EXCEPT ![w] =
                            IF ok THEN AfterItem(self.mode, self.todo)
                            ELSE AfterRaise(self.mode, self.todo)]
  /\ UNCHANGED <<producerVars, stage1, stage2, group1, embedder, qdrant, applied, attempts, crashes,
                 consumer_name>>

UCrash(w) ==
  /\ upserter[w].mode # "down"
  /\ Budget(1)
  /\ crashes' = crashes + 1
  /\ upserter' = [upserter EXCEPT ![w] = Down]
  /\ UNCHANGED <<producerVars, stage1, stage2, group1, group2, embedder, qdrant,
                 applied, attempts, faults,
                 consumer_name>>

\* ------------------------------------------------------------ specification
Next ==
  \/ OpenFeed
  \/ Notify
  \/ \E w \in Embedders : EStart(w)
  \/ \E w \in Embedders : ESweepClaim(w)
  \/ \E w \in Embedders : ERead(w)
  \/ \E w \in Embedders : EProcess(w)
  \/ \E w \in Embedders : EAck(w)
  \/ \E w \in Embedders : ECrash(w)
  \/ \E w \in Upserters : UStart(w)
  \/ \E w \in Upserters : USweepClaim(w)
  \/ \E w \in Upserters : URead(w)
  \/ \E w \in Upserters : UProcess(w)
  \/ \E w \in Upserters : UAck(w)
  \/ \E w \in Upserters : UCrash(w)

Spec == Init /\ [][Next]_vars

SpecExisting == InitExisting /\ [][Next]_vars

\* The QdrantUpserter replicas alone, on the stream of InitUpserter.
NextUpserter ==
  \/ \E w \in Upserters : UStart(w)
  \/ \E w \in Upserters : USweepClaim(w)
  \/ \E w \in Upserters : URead(w)
  \/ \E w \in Upserters : UProcess(w)
  \/ \E w \in Upserters : UAck(w)
  \/ \E w \in Upserters : UCrash(w)

SpecUpserter == InitUpserter /\ [][NextUpserter]_vars

\* The pipeline with no worker killed or started: the replicas of Init run
\* on, each scheduled fairly.  Calls still fail, MaxFailures times at most,
\* so that every dependency is available again in the end.
NextLive ==
  \/ OpenFeed
  \/ Notify
  \/ \E w \in Embedders : ERead(w)
  \/ \E w \in Embedders : EProcess(w)
  \/ \E w \in Embedders : EAck(w)
  \/ \E w \in Upserters : URead(w)
  \/ \E w \in Upserters : UProcess(w)
  \/ \E w \in Upserters : UAck(w)

EWork(w) == ERead(w) \/ EProcess(w) \/ EAck(w)

UWork(w) == URead(w) \/ UProcess(w) \/ UAck(w)

SpecLive ==
  /\ Init
  /\ [][NextLive]_vars
  /\ \A w \in Embedders : WF_vars(EWork(w))
  /\ \A w \in Upserters : WF_vars(UWork(w))

\* -------------------------------------------------------------- vocabulary
Range(seq) == {seq[i] : i \in 1..Len(seq)}

Blank(message_data) ==
  /\ message_data.operation \in {"insert", "update"}
  /\ strip(join(<<" ">>, SelectSeq(<<message_data.subject, message_data.content>>,
                                   LAMBDA f : f # <<>>))) = <<>>

\* The Stage-1 messages that produce output: a delete, or an insert/update
\* with text.
HasOutput(message_data) ==
  \/ message_data.operation = "delete"
  \/ message_data.operation \in {"insert", "update"} /\ ~Blank(message_data)

\* The Stage-2 entries derived from Stage-1 entry id.
Derived(id) ==
  IF id \in Ids(stage1)
  THEN {j \in Ids(stage2) : Data(stage2, j).original_timestamp = Data(stage1, id).timestamp}
  ELSE {}

Forwarded(id) == Derived(id) # {}

NoVector(message_data) ==
  /\ message_data.operation \in {"insert", "update"}
  /\ message_data.vector[2].len # expected_size

EmbedderAt(id) == \E w \in Embedders : embedder[w].phase = "ack" /\ embedder[w].cur = id

UpserterAt(id) == \E w \in Upserters : upserter[w].phase = "ack" /\ upserter[w].cur = id

\* ---------------------------------------------------------------------- C1
\* C1: a Stage-1 message that produces output is acknowledged only after a
\* Stage-2 message derived from it was appended: every step that takes such a
\* message out of the pending entries starts in a state whose Stage-2 stream
\* already holds an entry derived from it.
C1_AckAfterAppend ==
  [][\A id \in group1.pel :
       (id \notin group1'.pel /\ HasOutput(Data(stage1, id))) => Forwarded(id)]_vars

\* C1 witness: a message with output was forwarded twice (redelivery after a
\* failure) and is acknowledged.
C1_Witness ==
  \E id \in Acked(group1) :
    HasOutput(Data(stage1, id)) /\ Cardinality(Derived(id)) >= 2

\* ---------------------------------------------------------------------- C2
\* C2 as stated: the acknowledged Stage-1 messages are exactly the forwarded
\* ones, but for the messages an embedder is at the XACK of.
C2_AckedIffForwarded ==
  \A id \in Ids(stage1) :
    /\ id \in Acked(group1) => Forwarded(id)
    /\ (Forwarded(id) /\ ~EmbedderAt(id)) => id \in Acked(group1)

\* C2 amended: an acknowledged Stage-1 message was forwarded first or is an
\* insert/update without text to embed; a forwarded message that is neither
\* acknowledged nor at its XACK is pending, and only after a failure.
C2_AckedOnlyIfForwardedOrBlank ==
  \A id \in Ids(stage1) :
    /\ id \in Acked(group1) => (Forwarded(id) \/ Blank(Data(stage1, id)))
    /\ (Forwarded(id) /\ ~EmbedderAt(id) /\ id \notin Acked(group1)) =>
         (id \in group1.pel /\ faults + crashes > 0)

\* C2 witness: one message acknowledged after its forward, one acknowledged
\* without any (no text).
C2_Witness ==
  \E a, b \in Acked(group1) :
    /\ Forwarded(a) /\ HasOutput(Data(stage1, a))
    /\ ~Forwarded(b) /\ Blank(Data(stage1, b))

\* ---------------------------------------------------------------------- C3
AppliedIds == Range(applied)

Reflected(k) ==
  /\ k \in Acked(group1)
  /\ \E j \in Derived(k) : j \in AppliedIds /\ j \in Acked(group2)

\* A Stage-2 entry derived from k carries a vector of the wrong size.
Unusable(k) == \E j \in Derived(k) : NoVector(Data(stage2, j))

\* Stage-1 entry k is in the log and produces output.
Owed(k) == IF k \in Ids(stage1) THEN HasOutput(Data(stage1, k)) ELSE FALSE

\* C4 as stated: with the replicas running on and scheduled fairly, and calls
\* failing only finitely often, every Stage-1 message with output is
\* eventually applied to the index and acknowledged in both stages (a vector
\* of the wrong size set aside).
C4_EventuallyReflected ==
  \A k \in 1..MaxEvents :
    Owed(k) ~> (Reflected(k) \/ Unusable(k))

\* ---------------------------------------------------------------------- C5
Captured(n) == \E id \in Ids(stage1) : Data(stage1, id).timestamp = n

\* C5 as stated: a notification received while the XADD raises gets its
\* Stage-1 message once the log is available again: whenever a later
\* notification has its message in the log, so has every earlier one.
C5_NoNotificationDropped ==
  \A n, m \in 1..clock : (n < m /\ Captured(m)) => Captured(n)

\* ---------------------------------------------------------------------- C6
\* The mutation step of an upserter: the entry whose mutation it applied.
MutationStep == applied' # applied

LastApplied == applied'[Len(applied')]

PointsOf(points, doc_id) == {p \in points : p.payload.mongodb_id = doc_id}

\* The point one failure-free delivery of an insert/update message leaves.
PointOf(message_data) ==
  _process_embedded_message(message_data, GoodUpserterEnv).mutation[1].point

\* C6: whenever the upsert of a Stage-2 insert/update message has been
\* applied, for the first time or again, the collection holds exactly one
\* point for its doc_id, and it is the point a single delivery leaves.
C6_RedeliveryOnePoint ==
  [][MutationStep =>
       LET m == Data(stage2, LastApplied)
       IN m.operation \in {"insert", "update"} =>
            PointsOf(qdrant', m.doc_id) = {PointOf(m)}]_vars

\* C6 witness: the upsert of one Stage-2 message was applied twice and its
\* point is the one point of its doc_id.
C6_Witness ==
  \E a, b \in 1..Len(applied) :
    /\ a < b /\ applied[a] = applied[b]
    /\ Data(stage2, applied[b]).operation \in {"insert", "update"}
    /\ applied[Len(applied)] = applied[b]
    /\ PointsOf(qdrant, Data(stage2, applied[b]).doc_id) = {PointOf(Data(stage2, applied[b]))}

\* ---------------------------------------------------------------------- C7
\* The positions in the history of the mutations that concern doc_id.
AppliedFor(doc_id) ==
  {i \in 1..Len(applied) : Data(stage2, applied[i]).doc_id = doc_id}

Last(S) == CHOOSE i \in S : \A k \in S : k <= i

UuidOf(doc_id) == <<"6ba7b810-9dad-11d1-80b4-00c04fd430c8", doc_id>>

\* C7: at most one point per doc_id, at the id derived from the doc_id; after
\* a delete was the last mutation applied for a doc_id it has no point, after
\* an upsert it has one.
C7_OnePointPerDoc ==
  \A d \in DocIds :
    /\ Cardinality(PointsOf(qdrant, d)) <= 1
    /\ \A p \in PointsOf(qdrant, d) : p.id = UuidOf(d)
    /\ AppliedFor(d) # {} =>
         ((Data(stage2, applied[Last(AppliedFor(d))]).operation = "delete")
            <=> (PointsOf(qdrant, d) = {}))
    /\ AppliedFor(d) = {} => PointsOf(qdrant, d) = {}

\* C7 witness: for one doc_id an upsert, then a delete, then an upsert were
\* applied, and its point is back at the same id.
C7_Witness ==
  \E d \in DocIds : \E a, b, c \in AppliedFor(d) :
    /\ a < b /\ b < c /\ c = Last(AppliedFor(d))
    /\ Data(stage2, applied[a]).operation # "delete"
    /\ Data(stage2, applied[b]).operation = "delete"
    /\ Data(stage2, applied[c]).operation # "delete"
    /\ \E p \in qdrant : p.id = UuidOf(d)

\* ---------------------------------------------------------------------- C8
\* The points without the time of their embedding.
Content(points) ==
  {[id |-> p.id, vector |-> p.vector,
    payload |-> [p.payload EXCEPT !.embedded_timestamp = 0]] : p \in points}

\* The mutation applied in this step is a reprocessing: a mutation derived
\* from the same Stage-1 message was applied before (the same Stage-2 entry
\* redelivered, or a second Stage-2 entry of a reprocessed Stage-1 entry).
Reprocessing ==
  /\ MutationStep
  /\ \E i \in 1..Len(applied) :
       Data(stage2, applied[i]).original_timestamp
         = Data(stage2, LastApplied).original_timestamp

\* C8 as stated: reprocessing leaves the index as the run without it has it:
\* the mutation of a reprocessed message changes no point's presence or
\* content.
C8_ReprocessingLeavesIndex ==
  [][Reprocessing => Content(qdrant') = Content(qdrant)]_vars

\* ---------------------------------------------------------------------- C9
\* C9 as stated: every notification received has its Stage-1 message, and
\* every message of either stage is undelivered, pending, or acknowledged
\* after its downstream effect or as a classified poison message.
C9_NothingSilentlyDiscarded ==
  /\ \A n \in 1..clock : Captured(n)
  /\ \A id \in Ids(stage1) :
       \/ id > group1.last_delivered
       \/ id \in group1.pel
       \/ Forwarded(id)
       \/ Blank(Data(stage1, id))
  /\ \A j \in Ids(stage2) :
       \/ j > group2.last_delivered
       \/ j \in group2.pel
       \/ j \in AppliedIds
       \/ NoVector(Data(stage2, j))

\* --------------------------------------------------------------------- C10
\* C10 as stated: when an upserter has run _process_embedded_message on an
\* insert/update whose vector length is not 384, the collection is unchanged
\* and the message is acknowledged (or the upserter is at its XACK).
C10_WrongSizeAcknowledged ==
  [][\A w \in Upserters :
       (/\ Ready(upserter[w])
        /\ NoVector(Data(stage2, Current(upserter[w])))
        /\ upserter'[w] # upserter[w]
        /\ upserter'[w].mode # "down")
       => /\ qdrant' = qdrant
          /\ \/ Current(upserter[w]) \notin group2'.pel
             \/ /\ upserter'[w].phase = "ack"
                /\ upserter'[w].cur = Current(upserter[w])]_vars

\* --------------------------------------------------------------------- C11
\* A Stage-2 insert/update message whose vector is missing, empty or no JSON.
Unparsable(message_data) ==
  /\ message_data.operation \in {"insert", "update"}
  /\ LET vector_json == Get(message_data, "vector", None)
     IN vector_json = None \/ vector_json = <<>> \/ json_loads(vector_json).raised

\* C11 as stated: when an upserter has run _process_embedded_message on an
\* insert/update whose vector is missing or unparsable, the collection is
\* unchanged and the message is acknowledged (or the upserter is at its
\* XACK): it is no longer pending.
C11_UnparsableAcknowledged ==
  [][\A w \in Upserters :
       (/\ Ready(upserter[w])
        /\ Unparsable(Data(stage2, Current(upserter[w])))
        /\ upserter'[w] # upserter[w]
        /\ upserter'[w].mode # "down")
       => /\ qdrant' = qdrant
          /\ \/ Current(upserter[w]) \notin group2'.pel
             \/ /\ upserter'[w].phase = "ack"
                /\ upserter'[w].cur = Current(upserter[w])]_vars

\* --------------------------------------------------------------------- C12
\* Embedder w runs _process_raw_message in this step.
ERuns(w) ==
  /\ Ready(embedder[w])
  /\ embedder'[w] # embedder[w]
  /\ embedder'[w].mode # "down"

\* C12: the run of _process_raw_message on an insert/update without text
\* calls the embedding service zero times, appends nothing to Stage 2,
\* leaves the collection alone and acknowledges the message (unless the XACK
\* itself raises); and in every state no Stage-2 entry and no point derives
\* from such a message.
C12_BlankSkipped ==
  /\ [](\A id \in Ids(stage1) :
          Blank(Data(stage1, id)) =>
            /\ Derived(id) = {}
            /\ \A p \in qdrant :
                 p.payload.original_timestamp # Data(stage1, id).timestamp)
  /\ [][\A w \in Embedders :
          (ERuns(w) /\ Blank(Data(stage1, Current(embedder[w])))) =>
            /\ attempts'.stage = 1
            /\ attempts'.made = 0
            /\ stage2' = stage2
            /\ qdrant' = qdrant
            /\ \/ Current(embedder[w]) \notin group1'.pel
               \/ faults' > faults]_vars

\* C12 witness: an insert/update without text is acknowledged, the run that
\* acknowledged it made no call, and nothing derives from it.
C12_Witness ==
  \E id \in Acked(group1) :
    /\ Blank(Data(stage1, id))
    /\ attempts.stage = 1 /\ attempts.made = 0
    /\ Derived(id) = {}
    /\ stage2 # <<>>

\* --------------------------------------------------------------------- C13
\* The sleeps of a retry loop back off exponentially: 1, 2, ... seconds, one
\* after each failed attempt that is followed by another attempt.
BackedOff(a) ==
  /\ Len(a.slept) = IF a.made > 0 /\ a.failed = a.made THEN a.failed - 1 ELSE a.failed
  /\ \A i \in 1..Len(a.slept) : a.slept[i] = 2 ^ (i - 1)

\* C13: a run of _process_raw_message calls the embedding service at most
\* three times, sleeping 1 s and 2 s between failed attempts; when all three
\* fail, nothing is appended to Stage 2 and the run does not reach its XACK:
\* the pending entries of the group are what they were, so the message remains
\* pending (unless another replica had claimed and acknowledged it before
\* the run).
C13_EmbeddingRetries ==
  [][\A w \in Embedders :
       ERuns(w) =>
         /\ attempts'.stage = 1
         /\ attempts'.made <= 3
         /\ BackedOff(attempts')
         /\ attempts'.failed = 3 =>
              /\ stage2' = stage2
              /\ group1'.pel = group1.pel
              /\ embedder'[w].phase # "ack"]_vars

\* C13 witness: the run on a message with text made three calls that all
\* failed, slept 1 s and 2 s, and left the message pending and unforwarded.
C13_Witness ==
  /\ attempts = [stage |-> 1, made |-> 3, failed |-> 3, slept |-> <<1, 2>>]
  /\ \E id \in group1.pel :
       /\ HasOutput(Data(stage1, id))
       /\ ~Forwarded(id)
       /\ \A w \in Embedders : embedder[w].todo = <<>> /\ embedder[w].phase = "next"

\* --------------------------------------------------------------------- C14
\* Upserter w runs _process_embedded_message in this step.
URuns(w) ==
  /\ Ready(upserter[w])
  /\ upserter'[w] # upserter[w]
  /\ upserter'[w].mode # "down"

\* C14: a run of _process_embedded_message calls Qdrant's delete or upsert at
\* most three times; when all three fail, the collection is unchanged, no
\* mutation is recorded, and the run does not reach its XACK: the pending
\* entries of the group are what they were, so the message remains pending
\* (unless another replica had claimed and acknowledged it before the run).
C14_StoreRetries ==
  [][\A w \in Upserters :
       URuns(w) =>
         /\ attempts'.stage = 2
         /\ attempts'.made <= 3
         /\ attempts'.failed = 3 =>
              /\ qdrant' = qdrant
              /\ applied' = applied
              /\ group2'.pel = group2.pel
              /\ upserter'[w].phase # "ack"]_vars

\* C14 witness: the run on an upsert made three calls that all failed; the
\* message is pending, unapplied, and the collection is empty.
C14_Witness ==
  /\ attempts.stage = 2 /\ attempts.made = 3 /\ attempts.failed = 3
  /\ qdrant = {}
  /\ \E j \in group2.pel :
       /\ j \notin AppliedIds
       /\ Data(stage2, j).operation \in {"insert", "update"}
       /\ \A w \in Upserters : upserter[w].todo = <<>> /\ upserter[w].phase = "next"

\* --------------------------------------------------------------------- C15
\* C15: a run of _process_embedded_message on a delete whose Qdrant call
\* returns removes the point with the id derived from the doc_id and no
\* other (so it changes nothing when the doc_id has no point), and goes on
\* to the XACK of the message; an XACK that does not raise takes the message
\* out of the pending entries.
C15_DeleteRemovesPoint ==
  /\ [][\A w \in Upserters :
          LET id == Current(upserter[w])
          IN (/\ URuns(w)
              /\ Data(stage2, id).operation = "delete"
              /\ attempts'.failed < 3) =>
               /\ qdrant' = {p \in qdrant : p.id # UuidOf(Data(stage2, id).doc_id)}
               /\ PointsOf(qdrant', Data(stage2, id).doc_id) = {}
               /\ applied' = Append(applied, id)
               /\ upserter'[w].phase = "ack"
               /\ upserter'[w].cur = id]_vars
  /\ [][\A w \in Upserters :
          (/\ upserter[w].phase = "ack"
           /\ upserter'[w].phase # "ack"
           /\ upserter'[w].mode # "down"
           /\ faults' = faults) =>
            upserter[w].cur \notin group2'.pel]_vars

\* C15 witness: for one doc_id an upsert was applied, then a delete, then the
\* same delete again (redelivered, the point being gone already); the
\* collection is empty and the delete is acknowledged.
C15_Witness ==
  /\ qdrant = {}
  /\ \E a, b, c \in 1..Len(applied) :
       /\ a < b /\ b < c
       /\ applied[b] = applied[c]
       /\ Data(stage2, applied[a]).operation \in {"insert", "update"}
       /\ Data(stage2, applied[b]).operation = "delete"
       /\ Data(stage2, applied[a]).doc_id = Data(stage2, applied[b]).doc_id
       /\ applied[b] \in Acked(group2)

\* --------------------------------------------------------------------- C16
\* C16: the presence of a doc_id's point is decided by the mutation applied
\* last for it: a step that applies a delete leaves the doc_id without point,
\* a step that applies an upsert leaves it with one, whatever was applied
\* before and in whatever order the messages were emitted; such a step
\* leaves the points of the other doc_ids alone, and no other step changes
\* the collection.
C16_LastAppliedDecides ==
  /\ [][MutationStep =>
          LET m == Data(stage2, LastApplied)
          IN /\ (m.operation = "delete") <=> (PointsOf(qdrant', m.doc_id) = {})
             /\ \A d \in DocIds \ {m.doc_id} : PointsOf(qdrant', d) = PointsOf(qdrant, d)]_vars
  /\ [][~MutationStep => qdrant' = qdrant]_vars

\* C16 witness: the source updated a document and then deleted it; Stage 2
\* holds the delete before the update; the upsert was applied first and the
\* delete last, and the document has no point.
C16_Witness ==
  \E i, j \in Ids(stage1) : \E x \in Derived(i), y \in Derived(j) :
    /\ i < j /\ y < x
    /\ Data(stage1, i).operation = "update"
    /\ Data(stage1, j).operation = "delete"
    /\ Data(stage1, i).doc_id = Data(stage1, j).doc_id
    /\ applied = <<x, y>>
    /\ PointsOf(qdrant, Data(stage1, i).doc_id) = {}

\* --------------------------------------------------------------------- C17
\* The sweep of worker self ends in this step with entries of its list that
\* it never tried to claim.
Abandons(self, after) ==
  /\ self.mode = "sweep"
  /\ after.mode = "main"
  /\ Len(self.todo) > (IF self.phase = "next" THEN 1 ELSE 0)

\* C17 as stated: the sweep at the start of a consumer goes through every
\* pending entry it listed: an entry idle for min_idle_time or more is
\* claimed and handed to _process_*, an entry idle for less is passed over,
\* and the sweep ends only when the list is exhausted.
C17_SweepClaimsEveryIdleEntry ==
  /\ [](\A w \in Embedders :
          (embedder[w].mode = "sweep" /\ embedder[w].phase = "next") =>
            \A idle \in IdleTimes :
              (Claimed(embedder[w], group1, idle, TRUE).phase = "proc")
                <=> (Head(embedder[w].todo) \in group1.pel /\ idle >= 60000))
  /\ [](\A w \in Upserters :
          (upserter[w].mode = "sweep" /\ upserter[w].phase = "next") =>
            \A idle \in IdleTimes :
              (Claimed(upserter[w], group2, idle, TRUE).phase = "proc")
                <=> (Head(upserter[w].todo) \in group2.pel /\ idle >= 60000))
  /\ [][\A w \in Embedders : ~Abandons(embedder[w], embedder'[w])]_vars
  /\ [][\A w \in Upserters : ~Abandons(upserter[w], upserter'[w])]_vars

\* --------------------------------------------------------------------- C18
\* The Stage-1 entries of notification n.
MessagesOf(n) == {id \in Ids(stage1) : Data(stage1, id).timestamp = n}

\* The fields of a Stage-1 message: a delete carries its identification only,
\* the others the full field set.
RawFields(message_data) ==
  /\ message_data.stage = "raw"
  /\ DOMAIN message_data =
       IF message_data.operation = "delete"
       THEN {"operation", "doc_id", "timestamp", "stage"}
       ELSE {"operation", "doc_id", "product", "customer", "owner", "date",
             "subject", "content", "timestamp", "stage"}

\* C18 as stated: every notification received has exactly one Stage-1
\* message, and every Stage-1 message has the fields of its kind.
C18_OneMessagePerNotification ==
  /\ \A n \in 1..clock : Cardinality(MessagesOf(n)) = 1
  /\ \A id \in Ids(stage1) : RawFields(Data(stage1, id))

\* --------------------------------------------------------------------- C19
\* C19 as stated: every Stage-1 message has operation insert, update or
\* delete.
C19_OperationsOfStage1 ==
  \A id \in Ids(stage1) : Data(stage1, id).operation \in {"insert", "update", "delete"}

\* ------------------------------------------------------------------- C20
\* The producer alone, with a feed that may fail at any time.
NextFeed ==
  \/ OpenFeed
  \/ FeedError
  \/ Notify
  \/ NotifyMalformed

\* An attempt to open the feed ends: collection.watch() returns or raises.
FeedAttempt == feed = "closed" /\ (OpenFeed \/ FeedError)

SpecFeed == Init /\ [][NextFeed]_vars /\ WF_vars(FeedAttempt)

\* C20 as stated: in every behaviour in which the feed keeps failing the
\* producer eventually stops, and once the feed has failed the count of
\* failures only grows, so that at most max_retries attempts follow the first
\* failure.
C20_FeedFailureStops ==
  /\ ([]<><<FeedError>>_vars) => <>(feed = "terminated")
  /\ [][retry_count > 0 => retry_count' >= retry_count]_vars

\* C20, amended: the producer stops exactly when max_retries failures have
\* followed one another with no successful opening in between; the count
\* grows by one per failure and only a successful opening resets it; a
\* stopped producer does nothing more; and when from some point on the feed
\* never opens again, the producer eventually stops.
C20_ConsecutiveFailuresStop ==
  /\ [](retry_count \in 0..max_retries)
  /\ []((feed = "terminated") <=> (retry_count = max_retries))
  /\ [][retry_count' # retry_count =>
         \/ retry_count' = retry_count + 1 /\ feed' # "open"
         \/ retry_count' = 0 /\ feed = "closed" /\ feed' = "open"]_vars
  /\ [][feed # "terminated"]_vars
  /\ (<>[](feed # "open")) => <>[](feed = "terminated")

\* The producer has delivered a message, and has then stopped after
\* max_retries failures in a row.
C20_Witness ==
  /\ feed = "terminated"
  /\ retry_count = max_retries
  /\ stage1 # <<>>

\* ------------------------------------------------------------------- C21
\* The producer alone on a collection that holds the document "A".
SpecCapture == InitExisting /\ [][NextFeed]_vars

\* A notification is received in this step and no message is appended for
\* it: building the message or the XADD raised.
Skipped == clock' = clock + 1 /\ stage1' = stage1

\* C21: a step in which the processing of one notification fails leaves the
\* feed open and the retry counter as it was, and appends nothing; a step in
\* which it succeeds appends the message of that notification; and as long as
\* the feed is open the next notification can be processed, whatever
\* happened to the ones before.
C21_NotificationSkipped ==
  /\ [][Skipped => feed = "open" /\ feed' = "open" /\ retry_count' = retry_count]_vars
  /\ [][(clock' = clock + 1 /\ ~Skipped) =>
          /\ Len(stage1') = Len(stage1) + 1
          /\ stage1'[Len(stage1')].data.timestamp = clock'
          /\ feed' = "open" /\ retry_count' = retry_count]_vars
  /\ []((feed = "open" /\ clock < MaxEvents) => ENABLED Notify)

\* C21 witness: the message of the first notification could not be built (no
\* call failed), it has no Stage-1 message, the feed is open with its counter
\* at 0, and the notification after it has its message.
C21_Witness ==
  /\ clock = 2
  /\ faults = 0
  /\ feed = "open" /\ retry_count = 0
  /\ MessagesOf(1) = {}
  /\ MessagesOf(2) # {}

\* ------------------------------------------------------------------- C22
\* C22 as stated: however a run of _process_* ends, the worker goes on with
\* the entries that follow in its batch or in the list of its sweep; and a
\* run that neither reaches the XACK nor skips its message leaves the pending
\* entries as they were.
C22_ConsumerContinues ==
  /\ [][\A w \in Embedders :
          ERuns(w) =>
            /\ embedder'[w].todo = Rest(embedder[w])
            /\ (embedder'[w].phase # "ack" /\ HasOutput(Data(stage1, Current(embedder[w]))))
                 => group1'.pel = group1.pel]_vars
  /\ [][\A w \in Upserters :
          URuns(w) =>
            /\ upserter'[w].todo = Rest(upserter[w])
            /\ upserter'[w].phase # "ack" => group2'.pel = group2.pel]_vars

\* ------------------------------------------------------------------- C23
\* The messages appended to the log of C23: the deletes of the documents.
LogData ==
  {_prepare_raw_message([operationType |-> "delete", documentKey |-> [_id |-> d]], 0) :
     d \in DocIds}

\* One XADD to the Stage-1 stream, the stream having capacity Capacity.
LogAppend ==
  /\ NextId(stage1) <= MaxAppends
  /\ \E data \in LogData, evicted \in Evictions(Len(stage1) + 1, Capacity) :
       stage1' = XAdd(stage1, data, Capacity, evicted)
  /\ UNCHANGED <<producerVars, stage2, group1, group2, embedder, upserter, qdrant,
                 applied, attempts, faults, crashes,
                 consumer_name>>

\* Appends to a log of small capacity, and the replicas reading it.
NextLog ==
  \/ LogAppend
  \/ \E w \in Embedders : ERead(w)

SpecLog == Init /\ [][NextLog]_vars

\* The entries appended to the stream so far.
Appended(stream) == NextId(stream) - 1

\* C23 as stated: after any sequence of appends the log holds at most
\* Capacity entries, and they are exactly the newest: the entries in the log
\* are those of the newest Capacity ids, in the order of their ids, whether
\* read, pending or neither.
C23_NewestCapacityOnly ==
  /\ Len(stage1) <= Capacity
  /\ Ids(stage1) = {i \in 1..Appended(stage1) : i > Appended(stage1) - Capacity}
  /\ \A i \in 1..Len(stage1) : stage1[i].id = Appended(stage1) - Len(stage1) + i

\* ------------------------------------------------------------------- C24
\* The Stage-1 entry id is the message of the scenario: the insert of the
\* document A with subject S and content C.
Scenario(id) ==
  IF id \in Ids(stage1)
  THEN LET m == Data(stage1, id)
       IN /\ m.operation = "insert" /\ m.doc_id = "A"
          /\ m.subject = <<"S">> /\ m.content = <<"C">>
  ELSE FALSE

FailureFree == faults = 0 /\ crashes = 0

\* The times the mutation of Stage-2 entry j was applied.
TimesApplied(j) == Cardinality({i \in 1..Len(applied) : applied[i] = j})

Preview(content) == IF Len(content) > preview_len THEN Take(content, preview_len) ELSE content

\* C25 as stated: the payload of every point carries the metadata of the
\* Stage-1 message it comes from (product, customer, owner, date, subject),
\* the content of the document or its preview, the vector size and both
\* timestamps; for a message with content the payload's content is not empty.
C25_PayloadCarriesDocument ==
  \A id \in Ids(stage1) : \A p \in qdrant :
    LET m == Data(stage1, id)
    IN p.payload.original_timestamp = m.timestamp =>
         /\ p.payload.mongodb_id = m.doc_id
         /\ p.payload.product = m.product
         /\ p.payload.customer = m.customer
         /\ p.payload.owner = m.owner
         /\ p.payload.date = m.date
         /\ p.payload.subject = m.subject
         /\ p.payload.vector_size = p.vector.len
         /\ \E j \in Derived(id) : p.payload.embedded_timestamp = Data(stage2, j).timestamp
         /\ p.payload.content \in {m.content, Preview(m.content)}
         /\ m.content # <<>> => p.payload.content # <<>>

\* ------------------------------------------------------------------- C26
\* C26 as stated: the Stage-2 message an embedder appends refers to the
\* Stage-1 entry it was derived from by the identifier the stream gave that
\* entry; so two Stage-2 messages of different Stage-1 entries differ in
\* their reference.
C26_ReferenceToSource ==
  [][\A w \in Embedders :
       (ERuns(w) /\ stage2' # stage2) =>
         stage2'[Len(stage2')].data.original_timestamp = Current(embedder[w])]_vars

\* ------------------------------------------------------------------- C27
\* C27: the run of _process_raw_message on a delete makes no call of the
\* embedding service; when its XADD returns, Stage 2 has one more entry, a
\* tombstone with the fields operation = "delete", doc_id, timestamp,
\* original_timestamp and stage = "embedded" and no other, and the run is at
\* the XACK of the message; when its XADD raises, nothing is appended and
\* the message stays pending; and an XACK that returns takes the message
\* out of the pending entries.
C27_DeleteForwardsTombstone ==
  /\ [][\A w \in Embedders :
          LET id == Current(embedder[w])
          IN (ERuns(w) /\ Data(stage1, id).operation = "delete") =>
               /\ attempts' = [stage |-> 1] @@ NoCalls
               /\ stage2' # stage2 =>
                    /\ Len(stage2') = Len(stage2) + 1
                    /\ SubSeq(stage2', 1, Len(stage2)) = stage2
                    /\ LET t == stage2'[Len(stage2')].data
                       IN /\ DOMAIN t = {"operation", "doc_id", "timestamp",
                                         "original_timestamp", "stage"}
                          /\ t.operation = "delete"
                          /\ t.doc_id = Data(stage1, id).doc_id
                          /\ t.original_timestamp = Data(stage1, id).timestamp
                          /\ t.stage = "embedded"
                    /\ embedder'[w].phase = "ack"
                    /\ embedder'[w].cur = id
               /\ stage2' = stage2 =>
                    /\ faults' > faults
                    /\ group1'.pel = group1.pel
                    /\ embedder'[w].phase # "ack"]_vars
  /\ [][\A w \in Embedders :
          (/\ embedder[w].phase = "ack"
           /\ embedder'[w].phase # "ack"
           /\ embedder'[w].mode # "down"
           /\ faults' = faults) =>
            embedder[w].cur \notin group1'.pel]_vars

\* C27 witness: a delete is acknowledged; the one Stage-2 entry derived from
\* it is a tombstone without vector, and the latest run of the embedders,
\* which made it, called the embedding service zero times.
C27_Witness ==
  \E id \in Acked(group1) : \E j \in Derived(id) :
    /\ Data(stage1, id).operation = "delete"
    /\ Derived(id) = {j}
    /\ j = Len(stage2)
    /\ "vector" \notin DOMAIN Data(stage2, j)
    /\ attempts = [stage |-> 1] @@ NoCalls

\* ------------------------------------------------------------------- C28
\* C28 as stated: a worker that stops does not stop between the downstream
\* effect of a message (the XADD to Stage 2, the mutation of the collection)
\* and the XACK of that message.
C28_ShutdownCompletesInFlight ==
  /\ [][\A w \in Embedders :
          (embedder[w].mode # "down" /\ embedder'[w].mode = "down") =>
            embedder[w].phase # "ack"]_vars
  /\ [][\A w \in Upserters :
          (upserter[w].mode # "down" /\ upserter'[w].mode = "down") =>
            upserter[w].phase # "ack"]_vars

\* ------------------------------------------------------------------- C29
\* The entries delivered to the worker self (read in its batch, or claimed by
\* its sweep) that it has not finished with.
Holding(self) ==
  (IF self.mode = "main" THEN Range(self.todo) ELSE {})
    \cup (IF self.phase \in {"proc", "ack"} THEN {self.cur} ELSE {})

\* C29 as stated: no pending entry is held by two workers of one stage at the
\* same time.
C29_SingleOwner ==
  /\ \A v, w \in Embedders :
       v # w => Holding(embedder[v]) \cap Holding(embedder[w]) \cap group1.pel = {}
  /\ \A v, w \in Upserters :
       v # w => Holding(upserter[v]) \cap Holding(upserter[w]) \cap group2.pel = {}

\* ------------------------------------------------------------------- C30
\* C30 as stated: the replicas of one stage that are running have names that
\* differ from one another.
C30_UniqueConsumerNames ==
  /\ \A v, w \in Embedders :
       (v # w /\ embedder[v].mode # "down" /\ embedder[w].mode # "down")
         => consumer_name[v] # consumer_name[w]
  /\ \A v, w \in Upserters :
       (v # w /\ upserter[v].mode # "down" /\ upserter[w].mode # "down")
         => consumer_name[v] # consumer_name[w]

\* ------------------------------------------------------------------- C31
\* C31: the point id computed for a doc_id is the same in every state,
\* whatever the time, the replicas running and their names; and every
\* mutation applied for a doc_id, by whichever replica, addresses that one
\* point: an upsert leaves the doc_id with exactly one point, at the id
\* computed from the doc_id, a delete leaves it with none, and the points of
\* a doc_id before and after the step have the same id.
C31_PointIdPure ==
  /\ [][\A d \in DocIds : _mongodb_id_to_uuid(d)' = _mongodb_id_to_uuid(d)]_vars
  /\ [][MutationStep =>
          LET m == Data(stage2, LastApplied)
          IN /\ \A p \in PointsOf(qdrant, m.doc_id), q \in PointsOf(qdrant', m.doc_id) :
                  p.id = q.id
             /\ m.operation = "delete" => PointsOf(qdrant', m.doc_id) = {}
             /\ m.operation # "delete" =>
                  \E q \in qdrant' :
                    /\ PointsOf(qdrant', m.doc_id) = {q}
                    /\ q.id = _mongodb_id_to_uuid(m.doc_id)]_vars

\* C31 witness: two different Stage-2 messages of one doc_id had their
\* upserts applied, an upserter was killed and constructed again in between
\* or around them (it runs under a new name), and the doc_id has its one
\* point at the id computed from it.
C31_Witness ==
  /\ crashes = 1
  /\ consumer_name["u1"] # upserter_name(1000)
  /\ upserter["u1"].mode # "down"
  /\ \E d \in DocIds : \E a, b \in AppliedFor(d) :
       /\ a < b /\ applied[a] # applied[b]
       /\ Data(stage2, applied[a]).operation # "delete"
       /\ Data(stage2, applied[b]).operation # "delete"
       /\ \E p \in qdrant : PointsOf(qdrant, d) = {p} /\ p.id = _mongodb_id_to_uuid(d)

\* ------------------------------------------------------------------- C32
\* The pipeline before the first replica is constructed: no consumer group
\* exists, no replica runs; the Stage-2 stream holds two messages of an
\* earlier run.
InitDown ==
  /\ collection = [d \in DocIds |-> FALSE]
  /\ clock = 0
  /\ feed = "closed"
  /\ retry_count = 0
  /\ stage1 = <<>>
  /\ stage2 \in EmbeddedStreams
  /\ group1 = NoGroup
  /\ group2 = NoGroup
  /\ embedder = [w \in Embedders |-> Down]
  /\ upserter = [w \in Upserters |-> Down]
  /\ qdrant = {}
  /\ applied = <<>>
  /\ attempts = [stage |-> 0] @@ NoCalls
  /\ faults = 0
  /\ crashes = 0
  /\ consumer_name = [w \in Embedders \cup Upserters |-> None]

\* The replicas are started one by one and read what their streams hold, up
\* to the point where the first of them processes an entry.
NextDown ==
  \/ OpenFeed
  \/ Notify
  \/ \E w \in Embedders : EStart(w)
  \/ \E w \in Embedders : ERead(w)
  \/ \E w \in Upserters : UStart(w)
  \/ \E w \in Upserters : URead(w)

SpecDown == InitDown /\ [][NextDown]_vars

\* The start of replica w succeeds.
EStarts(w) == EStart(w) /\ embedder'[w].mode # "down"

UStarts(w) == UStart(w) /\ upserter'[w].mode # "down"

\* The group as a first XGROUP CREATE at id 0 leaves it.
NewGroup == [created |-> TRUE, last_delivered |-> 0, pel |-> {}]

\* C32: a replica can start whether or not its group exists; the step in
\* which it starts leaves an existing group as it is (delivery position and
\* pending entries) and creates a missing one at position 0 with no pending
\* entry; a creation that fails with another error raises and changes
\* nothing; and while no entry is pending, a step in which a call of a
\* starting replica fails (the group creation: nothing is pending that the
\* listing could fail on) leaves every replica and both groups as they
\* were: the replica whose group creation failed is not running.
C32_GroupCreationIdempotent ==
  /\ [](\A w \in Embedders : embedder[w].mode = "down" => ENABLED EStarts(w))
  /\ [](\A w \in Upserters : upserter[w].mode = "down" => ENABLED UStarts(w))
  /\ [][\A w \in Embedders :
          (embedder[w].mode = "down" /\ embedder'[w].mode # "down") =>
            group1' = IF group1.created THEN group1 ELSE NewGroup]_vars
  /\ [][\A w \in Upserters :
          (upserter[w].mode = "down" /\ upserter'[w].mode # "down") =>
            group2' = IF group2.created THEN group2 ELSE NewGroup]_vars
  /\ [](/\ _setup_consumer_group(group1, TRUE) = [group |-> group1, raised |-> TRUE]
        /\ _setup_consumer_group(group2, TRUE) = [group |-> group2, raised |-> TRUE])
  /\ [][(group1.pel = {} /\ group2.pel = {} /\ clock' = clock /\ faults' > faults) =>
          /\ embedder' = embedder /\ upserter' = upserter
          /\ group1' = group1 /\ group2' = group2
          /\ consumer_name' = consumer_name]_vars

\* C32 witness: the second replica of each stage has started on a group that
\* existed, with entries delivered and pending; the entries are still
\* pending and the delivery position is where it was.
C32_Witness ==
  /\ \A w \in Embedders \cup Upserters : consumer_name[w] # None
  /\ embedder["e2"].mode = "sweep" /\ upserter["u2"].mode = "sweep"
  /\ group1.pel # {} /\ group1.last_delivered = Len(stage1)
  /\ group2.pel # {} /\ group2.last_delivered = Len(stage2)
  /\ embedder["e2"].todo = SortedSeq(group1.pel)
  /\ upserter["u2"].todo = SortedSeq(group2.pel)

\* ------------------------------------------------------------------- C33
\* The stream after the step is the stream before it with one entry appended.
Appends(before, after) ==
  /\ Len(after) = Len(before) + 1
  /\ SubSeq(after, 1, Len(before)) = before

\* The group after the step has delivered no less, and has pending what it
\* had, less what was acknowledged, plus what was delivered in the step.
ReadsOrAcks(before, after) ==
  /\ after.created
  /\ after.last_delivered >= before.last_delivered
  /\ after.pel \ before.pel = (before.last_delivered + 1)..after.last_delivered

\* C33: the Stage-1 stream changes only in a step of the producer, which
\* appends one entry; the Stage-2 stream changes only in a run of
\* _process_raw_message, which appends one entry; the collection changes only
\* in a run of _process_embedded_message.  A step of the producer leaves the
\* Stage-2 stream, both groups, the replicas and the collection alone; a step
\* of an embedder leaves the producer, the Stage-1 stream, the group of Stage
\* 2, the upserters and the collection alone, and only reads or acknowledges
\* in its group; a step of an upserter leaves the producer, both streams, the
\* group of Stage 1 and the embedders alone, and only reads or acknowledges
\* in its group.
C33_DataFlowsForward ==
  /\ [][stage1' # stage1 => (clock' = clock + 1 /\ Appends(stage1, stage1'))]_vars
  /\ [][stage2' # stage2 =>
          ((\E w \in Embedders : ERuns(w)) /\ Appends(stage2, stage2'))]_vars
  /\ [][qdrant' # qdrant => \E w \in Upserters : URuns(w)]_vars
  /\ [][producerVars' # producerVars =>
          UNCHANGED <<stage2, group1, group2, embedder, upserter, qdrant, applied>>]_vars
  /\ [][(embedder' # embedder \/ group1' # group1) =>
          /\ UNCHANGED <<producerVars, stage1, group2, upserter, qdrant, applied>>
          /\ ReadsOrAcks(group1, group1')]_vars
  /\ [][(upserter' # upserter \/ group2' # group2) =>
          /\ UNCHANGED <<producerVars, stage1, stage2, group1, embedder>>
          /\ ReadsOrAcks(group2, group2')]_vars

\* C33 witness: every component has acted on two notifications: both
\* messages are in both streams, acknowledged in both groups, and both
\* mutations were applied.
C33_Witness ==
  /\ clock = MaxEvents
  /\ Len(stage1) = MaxEvents /\ Len(stage2) = MaxEvents
  /\ Acked(group1) = Ids(stage1)
  /\ Acked(group2) = Ids(stage2)
  /\ Range(applied) = Ids(stage2)
  /\ qdrant # {}

\* ------------------------------------------------------------------- C34
\* C34: every successful opening of the feed sets retry_count to 0; a failure
\* while the feed is open therefore makes it 1, closes the feed without
\* stopping the producer, and is followed by the shortest sleep of the loop;
\* the producer stops only at the third failure of three in a row, the last
\* two of them failures to open; a closed feed is always tried again; and in
\* every behaviour in which the feed opens again and again, failing in
\* between as it may, the producer never stops.
C34_ResetOnOpen ==
  /\ [][(feed = "closed" /\ feed' = "open") => retry_count' = 0]_vars
  /\ [](feed = "open" => retry_count = 0)
  /\ [][(feed = "open" /\ feed' # "open") =>
          /\ feed' = "closed"
          /\ retry_count' = 1
          /\ \A n \in 1..(max_retries - 1) : sleep_time(retry_count') <= sleep_time(n)]_vars
  /\ [][(feed # "terminated" /\ feed' = "terminated") =>
          feed = "closed" /\ retry_count = max_retries - 1]_vars
  /\ (feed = "closed") ~> (feed # "closed")
  /\ ([]<>(feed = "open")) => [](feed # "terminated")

\* C34 witness: the feed was opened, delivered a notification and then failed
\* while being read: the producer is about to open it again, one failure
\* counted.
C34_Witness ==
  /\ feed = "closed"
  /\ retry_count = 1
  /\ clock >= 1
  /\ sleep_time(retry_count) = 2

\* ------------------------------------------------------------------- C35
\* The pipeline with the second replica of one stage not yet started: it is
\* started at some later time.
InitLate ==
  /\ collection = [d \in DocIds |-> FALSE]
  /\ clock = 0
  /\ feed = "closed"
  /\ retry_count = 0
  /\ stage1 = <<>>
  /\ stage2 = <<>>
  /\ group1 = XGroupCreate(NoGroup)
  /\ group2 = XGroupCreate(NoGroup)
  /\ \E late \in {"e2", "u2"} :
       /\ embedder = [w \in Embedders |-> IF w # late THEN Started(group1, TRUE) ELSE Down]
       /\ upserter = [w \in Upserters |-> IF w # late THEN Started(group2, TRUE) ELSE Down]
       /\ consumer_name =
            [e1 |-> embedder_name(1000),
             e2 |-> IF late = "e2" THEN None ELSE embedder_name(2000),
             u1 |-> upserter_name(1000),
             u2 |-> IF late = "u2" THEN None ELSE upserter_name(2000)]
  /\ qdrant = {}
  /\ applied = <<>>
  /\ attempts = [stage |-> 0] @@ NoCalls
  /\ faults = 0
  /\ crashes = 0

\* No replica is killed: the second replicas start while the first run.
NextLate ==
  \/ OpenFeed
  \/ Notify
  \/ \E w \in Embedders : EStart(w)
  \/ \E w \in Embedders : ESweepClaim(w)
  \/ \E w \in Embedders : ERead(w)
  \/ \E w \in Embedders : EProcess(w)
  \/ \E w \in Embedders : EAck(w)
  \/ \E w \in Upserters : UStart(w)
  \/ \E w \in Upserters : USweepClaim(w)
  \/ \E w \in Upserters : URead(w)
  \/ \E w \in Upserters : UProcess(w)
  \/ \E w \in Upserters : UAck(w)

SpecLate == InitLate /\ [][NextLate]_vars

\* The worker is in its read loop and takes a new batch in this step.
NewBatch(self, after) ==
  /\ self.mode = "main" /\ after.mode = "main"
  /\ self.todo = <<>> /\ after.todo # <<>>

\* The worker enters its sweep, or claims an entry in it, in this step.
SweepBegins(self, after) == self.mode # "sweep" /\ after.mode = "sweep"

SweepClaims(self, after) == self.phase # "proc" /\ after.phase = "proc"

LongPending ==
  XPendingRange([created |-> TRUE, last_delivered |-> pending_count + 1,
                 pel |-> 1..(pending_count + 1)], pending_count)

\* The worker leaves its sweep for the read loop with nothing in hand.
InReadLoop(after) == after = [mode |-> "main", todo |-> <<>>, cur |-> 0, phase |-> "next"]

\* C36: the list of a sweep is the listing of the group's pending entries,
\* the pending_count = 100 oldest at most; when the run of _process_* on a
\* claimed entry raises (a call fails for good, the operation is unknown, or
\* the XACK raises), the sweep is over: the worker is in its read loop with
\* an empty batch, the entries listed after the failing one were not claimed
\* and not processed, and the pending entries, both streams and the
\* collection are what they were before the run.
C36_SweepStopsAtFirstRaise ==
  /\ [](Len(LongPending) = pending_count /\ \A i \in 1..pending_count : LongPending[i] = i)
  /\ [][\A w \in Embedders :
          LET self == embedder[w]
              after == embedder'[w]
          IN /\ SweepBegins(self, after) =>
                    /\ after.todo = XPendingRange(group1, pending_count)
                    /\ Len(after.todo) <= pending_count
             /\ (/\ ERuns(w) /\ self.mode = "sweep" /\ after.phase # "ack"
                 /\ \/ faults' > faults
                    \/ Data(stage1, self.cur).operation \notin {"insert", "update", "delete"}) =>
                    /\ InReadLoop(after)
                    /\ UNCHANGED <<group1, stage1, stage2, qdrant>>
             /\ (self.mode = "sweep" /\ self.phase = "ack" /\ after.phase # "ack"
                 /\ after.mode # "down" /\ faults' > faults) =>
                    /\ InReadLoop(after)
                    /\ UNCHANGED <<group1, stage1, stage2, qdrant>>]_vars
  /\ [][\A w \in Upserters :
          LET self == upserter[w]
              after == upserter'[w]
          IN /\ SweepBegins(self, after) =>
                    /\ after.todo = XPendingRange(group2, pending_count)
                    /\ Len(after.todo) <= pending_count
             /\ (URuns(w) /\ self.mode = "sweep" /\ after.phase # "ack" /\ faults' > faults) =>
                    /\ InReadLoop(after)
                    /\ UNCHANGED <<group2, stage1, stage2, qdrant>>
             /\ (self.mode = "sweep" /\ self.phase = "ack" /\ after.phase # "ack"
                 /\ after.mode # "down" /\ faults' > faults) =>
                    /\ InReadLoop(after)
                    /\ UNCHANGED <<group2, stage1, stage2, qdrant>>]_vars

\* C36 witness: the first embedder read two entries and has processed none;
\* the second, started after that, listed both in its sweep; the one run of
\* _process_raw_message so far, made by the sweep, failed three times, and
\* the second embedder is in its read loop: both entries are pending and
\* unforwarded.
C36_Witness ==
  /\ embedder["e1"].mode = "main"
  /\ embedder["e1"].todo = <<1, 2>>
  /\ group1.pel = {1, 2}
  /\ consumer_name["e2"] # consumer_name["e1"]
  /\ InReadLoop(embedder["e2"])
  /\ attempts.stage = 1 /\ attempts.failed = 3
  /\ stage2 = <<>>
  /\ faults = 1

\* ------------------------------------------------------------------- C37
\* A Stage-1 message whose operation _process_raw_message has no branch for.
UnknownOperation(message_data) ==
  message_data.operation \notin {"insert", "update", "delete"}

\* C37: a Stage-1 message whose operation is none of insert, update and
\* delete is never forwarded and never acknowledged, and no embedder is ever
\* at its XACK; every run of _process_raw_message on it, in the read loop or
\* in a sweep that claimed it, calls the embedding service zero times,
\* appends nothing and leaves the group as it is, and a sweep ends with it;
\* once pending it is pending in every later state.
C37_UnknownOperationStuck ==
  /\ [](\A id \in Ids(stage1) :
          UnknownOperation(Data(stage1, id)) =>
            /\ ~Forwarded(id)
            /\ id \notin Acked(group1)
            /\ ~EmbedderAt(id))
  /\ [][\A w \in Embedders :
          (ERuns(w) /\ UnknownOperation(Data(stage1, Current(embedder[w])))) =>
            /\ attempts' = [stage |-> 1] @@ NoCalls
            /\ UNCHANGED <<stage2, group1, qdrant, faults>>
            /\ Current(embedder[w]) \in group1.pel
            /\ embedder'[w].phase = "next"
            /\ embedder[w].mode = "sweep" => InReadLoop(embedder'[w])]_vars
  /\ [][\A id \in group1.pel :
          UnknownOperation(Data(stage1, id)) => id \in group1'.pel]_vars

\* C37 witness: the one message of Stage 1 is a replace; a run of
\* _process_raw_message on it has failed without any call failing, it is
\* pending and unforwarded, and the first embedder, killed and started again,
\* has claimed it in its sweep.
C37_Witness ==
  /\ Len(stage1) = 1
  /\ UnknownOperation(Data(stage1, 1))
  /\ attempts = [stage |-> 1] @@ NoCalls
  /\ faults = 0 /\ crashes = 1
  /\ group1.pel = {1}
  /\ stage2 = <<>>
  /\ embedder["e1"].mode = "sweep"
  /\ embedder["e1"].phase = "proc"
  /\ embedder["e1"].cur = 1
  /\ InReadLoop(embedder["e2"])

\* ------------------------------------------------------------------- C38
\* The pipeline with exactly one replica of each stage: the second replicas
\* are not running and are never started.
InitSingle ==
  /\ collection = [d \in DocIds |-> FALSE]
  /\ clock = 0
  /\ feed = "closed"
  /\ retry_count = 0
  /\ stage1 = <<>>
  /\ stage2 = <<>>
  /\ group1 = XGroupCreate(NoGroup)
  /\ group2 = XGroupCreate(NoGroup)
  /\ embedder = [w \in Embedders |-> IF w = "e1" THEN Started(group1, TRUE) ELSE Down]
  /\ upserter = [w \in Upserters |-> IF w = "u1" THEN Started(group2, TRUE) ELSE Down]
  /\ qdrant = {}
  /\ applied = <<>>
  /\ attempts = [stage |-> 0] @@ NoCalls
  /\ faults = 0
  /\ crashes = 0
  /\ consumer_name = [e1 |-> embedder_name(1000), e2 |-> None,
                      u1 |-> upserter_name(1000), u2 |-> None]

SpecSingle == InitSingle /\ [][NextLive]_vars

\* Every message of both streams is acknowledged.
AllProcessed ==
  /\ stage1 # <<>>
  /\ Acked(group1) = Ids(stage1)
  /\ Acked(group2) = Ids(stage2)

\* The Stage-1 entries of doc_id, and the last of them.
ChangesOf(doc_id) == {id \in Ids(stage1) : Data(stage1, id).doc_id = doc_id}

LastChange(doc_id) == Data(stage1, Last(ChangesOf(doc_id)))

\* C38 as stated: with one replica per stage and no failure, the mutations
\* of a doc_id are applied in the order of their Stage-1 messages; and once
\* every message is processed, a doc_id has a point exactly when its last
\* captured change is an insert/update with text, and the point carries the
\* metadata of that change.
C38_LastChangeDecides ==
  FailureFree =>
    /\ \A i, j \in 1..Len(applied) :
         (i < j /\ Data(stage2, applied[i]).doc_id = Data(stage2, applied[j]).doc_id) =>
           Data(stage2, applied[i]).original_timestamp
             < Data(stage2, applied[j]).original_timestamp
    /\ AllProcessed =>
         \A d \in DocIds :
           ChangesOf(d) # {} =>
             LET m == LastChange(d)
             IN /\ (PointsOf(qdrant, d) # {}) <=>
                     (m.operation \in {"insert", "update"} /\ ~Blank(m))
                /\ \A p \in PointsOf(qdrant, d) :
                     /\ p.payload.original_timestamp = m.timestamp
                     /\ p.payload.subject = m.subject
                     /\ p.payload.product = m.product

\* ------------------------------------------------------------------- C39
\* The worker self runs _process_* in the step on the entry it holds.
Runs(self, after) == Ready(self) /\ after # self

\* C39 as stated: a step in which an embedder appends to the Stage-2 stream
\* works on a Stage-1 message that is not acknowledged in its group, and a
\* step in which an upserter mutates the collection works on a Stage-2
\* message that is not acknowledged in its group.
C39_NoEffectAfterAck ==
  /\ [][\A w \in Embedders :
          (Runs(embedder[w], embedder'[w]) /\ stage2' # stage2) =>
            Current(embedder[w]) \notin Acked(group1)]_vars
  /\ [][\A w \in Upserters :
          (Runs(upserter[w], upserter'[w]) /\ MutationStep) =>
            Current(upserter[w]) \notin Acked(group2)]_vars

====
